---- MODULE Spec2Model ----
(***************************************************************************)
(* Model of src/backends/onnx/onnx_backend_factory.cc:                     *)
(*   OnnxBackendFactory::Create, ~OnnxBackendFactory and                   *)
(*   OnnxBackendFactory::CreateBackend.                                    *)
(*                                                                         *)
(* CreateBackend is modelled statement by statement (one action per        *)
(* collaborator call), Create and the destructor as one action each.       *)
(* The collaborators whose bodies are not part of the file (the directory  *)
(* enumeration, LocalizeFileFolder, ReadTextFile, OnnxLoader, OnnxBackend) *)
(* are modelled by their documented contract; each of them either succeeds *)
(* or returns an error Status, as chosen by the environment.               *)
(***************************************************************************)
EXTENDS Integers, Sequences, FiniteSets, TLC

\* ------------------------------------------------------------------ bounds

\* Number of entry names a model directory may draw from.
MaxNames == 4

\* Number of OnnxBackendFactory::Create calls in one run.
MaxFactories == 2

\* ------------------------------------------------------------- file names

\* Entry names are byte strings, written as sequences of character codes:
\* ".h", "a", "b", "ab", ".z", "c" (46 is '.').
NamePool ==
  << <<46, 104>>, <<97>>, <<98>>, <<97, 98>>, <<46, 122>>, <<99>> >>

Names == {NamePool[k] : k \in 1..MaxNames}

\* std::less<std::string>: lexicographic comparison of the bytes.
RECURSIVE LexLess(_, _)
LexLess(a, b) ==
  IF b = <<>> THEN FALSE
  ELSE IF a = <<>> THEN TRUE
  ELSE IF Head(a) # Head(b) THEN Head(a) < Head(b)
  ELSE LexLess(Tail(a), Tail(b))

\* A name is hidden when it begins with '.'.
IsHidden(name) == name # <<>> /\ Head(name) = 46

\* Element number n (from 0) of a std::set<std::string> in iteration order.
NthDescending(S, n) ==
  CHOOSE x \in S : Cardinality({y \in S : LexLess(x, y)}) = n

Nth(S, n) ==
  CHOOSE x \in S : Cardinality({y \in S : LexLess(y, x)}) = n

\* ------------------------------------------------------------ file system

Kinds == {"file", "dir"}

\* A model directory: its entries and the kind of each.
Dirs == UNION {[E -> Kinds] : E \in SUBSET Names}

\* GetDirectoryFiles(path, skip_hidden_files, &files).
GetDirectoryFiles(d, skip_hidden_files) ==
  {n \in DOMAIN d : d[n] = "file" /\ ~(skip_hidden_files /\ IsHidden(n))}

\* GetDirectorySubdirs(path, &subdirs): the immediate subdirectories.
GetDirectorySubdirs(d) == {n \in DOMAIN d : d[n] = "dir"}

\* What ReadTextFile yields for a file: the stored contents of that file.
ContentsOf(name) == <<"contents", name>>

\* TemporaryDirectory::model_path of store s.
ModelPath(s) == <<"tmp", <<s>>>>

\* ------------------------------------------------------ collaborator calls

Call(op, arg) == [op |-> op, arg |-> arg]

CallFiles == Call("GetDirectoryFiles", <<>>)
CallSubdirs == Call("GetDirectorySubdirs", <<>>)
CallLocalize(name) == Call("LocalizeFileFolder", name)
CallRead(name) == Call("ReadTextFile", name)
CallInit == Call("Init", <<>>)
CallContexts == Call("CreateExecutionContexts", <<>>)

\* The calls a CreateBackend on directory d can make.
CallsOn(d) ==
  {CallFiles, CallSubdirs, CallInit, CallContexts}
    \cup {CallLocalize(n) : n \in GetDirectorySubdirs(d)}
    \cup {CallRead(n) : n \in GetDirectoryFiles(d, TRUE)}

\* The error Status a failing collaborator call returns.
ErrorOf(call) == [error |-> call]

Success == [error |-> Call("none", <<>>)]

NoStatus == [error |-> Call("pending", <<>>)]

\* RETURN_IF_ERROR(S): the Status handed back to the caller.
ReturnedStatus(call) == ErrorOf(call)

\* ------------------------------------------------------------------- state

VARIABLES
  pc,            \* position of the CreateBackend call
  dir,           \* the model directory at 'path'
  fails,         \* the collaborator calls that fail during this call
  onnx_files,    \* std::set<std::string> onnx_files
  onnx_subdirs,  \* std::set<std::string> onnx_subdirs
  models,        \* the name -> (is_inline, string) map
  local_onnx,    \* std::vector<std::shared_ptr<TemporaryDirectory>>
  i,             \* index into local_onnx in the subdirectory loop
  it,            \* position of the file loop
  local_backend, \* std::unique_ptr<OnnxBackend> local_backend
  backend,       \* the caller's *backend
  status,        \* the Status CreateBackend returned
  alive,         \* the TemporaryDirectory objects that exist
  created,       \* the TemporaryDirectory objects this call constructed
  locs,          \* the LocalizeFileFolder calls that succeeded: <<subdir, store>>
  trace,         \* the collaborator calls made by this call, in order
  fstate,        \* per factory: "none", "live" or "destroyed"
  fconfig,       \* per factory: the shape of the backend_config it was given
  fstatus,       \* per factory: the Status Create returned
  fout,          \* per factory: whether Create set the caller's *factory
  inits,         \* per factory: OnnxLoader::Init() calls made by its Create
  stops,         \* per factory: OnnxLoader::Stop() calls made by its destructor
  active         \* OnnxLoader: whether the runtime is active

callVars ==
  <<pc, dir, fails, onnx_files, onnx_subdirs, models, local_onnx, i, it,
    local_backend, backend, status, alive, created, locs, trace>>

factoryVars == <<fstate, fconfig, fstatus, fout, inits, stops, active>>

vars == <<callVars, factoryVars>>

Factories == 1..MaxFactories

EmptyMap == [n \in {} |-> <<TRUE, <<>>>>]

NoBackend == [exists |-> FALSE, inited |-> FALSE, handed |-> FALSE, contexts |-> EmptyMap]

ConfigShapes == {"onnx", "other"}


\* ----------------------------------------------------------------- helpers

Range(f) == {f[x] : x \in DOMAIN f}

\* std::unordered_map::emplace: inserts unless the key is already present.
Emplace(m, k, v) ==
  IF k \in DOMAIN m THEN m
  ELSE [x \in DOMAIN m \cup {k} |-> IF x = k THEN v ELSE m[x]]

\* The size local_onnx is constructed with.
StoreCount(files, subdirs) == Cardinality(files)

\* What local_onnx[k] yields for k >= local_onnx.size(): storage past the end
\* of the vector, which is no TemporaryDirectory of this call.
WildSlot == 0

\* Destruction of local_onnx at scope exit: every TemporaryDirectory it owns
\* is released.
ReleaseLocalsLeak(al, vec) == al

ReleaseLocals(al, vec) == al \ Range(vec)

\* Where control goes after k iterations of the subdirectory loop, and after
\* k iterations of the file loop.
AfterLocalize(k, subdirs, files) ==
  IF k < Cardinality(subdirs) THEN "localize"
  ELSE IF 0 < Cardinality(files) THEN "read" ELSE "init"

AfterRead(k, files) == IF k < Cardinality(files) THEN "read" ELSE "init"

InFlight == pc \in {"files", "subdirs", "alloc", "localize", "read", "init", "cec", "ret"}

\* A return statement: the Status and the caller's *backend, and the
\* destruction of the locals.
Return(st, b) ==
  /\ pc' = "returned"
  /\ status' = st
  /\ backend' = b
  /\ alive' = ReleaseLocals(alive, local_onnx)
  /\ local_onnx' = <<>>
  /\ onnx_files' = {}
  /\ onnx_subdirs' = {}
  /\ models' = EmptyMap
  /\ local_backend' = NoBackend
  /\ i' = 0
  /\ it' = 0

\* ------------------------------------------------------------------- Init

CallInitial ==
  /\ pc = "idle"
  /\ dir = [n \in {} |-> "file"]
  /\ fails = {}
  /\ onnx_files = {}
  /\ onnx_subdirs = {}
  /\ models = EmptyMap
  /\ local_onnx = <<>>
  /\ i = 0
  /\ it = 0
  /\ local_backend = NoBackend
  /\ backend = NoBackend
  /\ status = NoStatus
  /\ alive = {}
  /\ created = {}
  /\ locs = <<>>
  /\ trace = <<>>

\* No factory has been created; the runtime is not active.
InitFactory ==
  /\ CallInitial
  /\ fstate = [f \in Factories |-> "none"]
  /\ fconfig = [f \in Factories |-> "none"]
  /\ fstatus = [f \in Factories |-> NoStatus]
  /\ fout = [f \in Factories |-> FALSE]
  /\ inits = [f \in Factories |-> 0]
  /\ stops = [f \in Factories |-> 0]
  /\ active = FALSE

\* One factory, returned by a successful Create.
Init ==
  /\ CallInitial
  /\ fstate = [f \in Factories |-> IF f = 1 THEN "live" ELSE "none"]
  /\ fconfig = [f \in Factories |-> IF f = 1 THEN "onnx" ELSE "none"]
  /\ fstatus = [f \in Factories |-> IF f = 1 THEN Success ELSE NoStatus]
  /\ fout = [f \in Factories |-> f = 1]
  /\ inits = [f \in Factories |-> IF f = 1 THEN 1 ELSE 0]
  /\ stops = [f \in Factories |-> 0]
  /\ active = TRUE

\* ---------------------------------------------------------- CreateBackend

\* The call is entered on a live factory, with a model directory and an
\* environment (the calls that will fail) of the caller's choosing.
Enter(f, d, fl) ==
  /\ pc = "idle"
  /\ fstate[f] = "live"
  /\ pc' = "files"
  /\ dir' = d
  /\ fails' = fl
  /\ onnx_files' = {}
  /\ onnx_subdirs' = {}
  /\ models' = EmptyMap
  /\ local_onnx' = <<>>
  /\ i' = 0
  /\ it' = 0
  /\ local_backend' = NoBackend
  /\ backend' = NoBackend
  /\ status' = NoStatus
  /\ created' = {}
  /\ locs' = <<>>
  /\ trace' = <<>>
  /\ UNCHANGED <<alive, factoryVars>>

CreateBackendEnter ==
  /\ pc = "idle"
  /\ \E f \in Factories, d \in Dirs : \E fl \in SUBSET CallsOn(d) : Enter(f, d, fl)

\* Within a factory life cycle the calls are made on the directories over two
\* visible names (each absent, a file or a subdirectory), with no failing
\* collaborator call or a single one.
FactoryDirs == {d \in Dirs : DOMAIN d \subseteq {NamePool[2], NamePool[3]}}

FewFailures(d) == {{}} \cup {{c} : c \in CallsOn(d)}

CreateBackendEnterFew ==
  /\ pc = "idle"
  /\ \E f \in Factories, d \in FactoryDirs : \E fl \in FewFailures(d) : Enter(f, d, fl)

\* The caller takes the returned Status and *backend; it may call again.
CallerTakesResult ==
  /\ pc = "returned"
  /\ pc' = "idle"
  /\ dir' = [n \in {} |-> "file"]
  /\ fails' = {}
  /\ backend' = NoBackend
  /\ status' = NoStatus
  /\ created' = {}
  /\ locs' = <<>>
  /\ trace' = <<>>
  /\ UNCHANGED <<onnx_files, onnx_subdirs, models, local_onnx, i, it,
                 local_backend, alive, factoryVars>>

\* GetDirectoryFiles(path, true, &onnx_files)
EnumerateFiles ==
  /\ pc = "files"
  /\ trace' = Append(trace, CallFiles)
  /\ \/ /\ CallFiles \in fails
        /\ Return(ReturnedStatus(CallFiles), backend)
        /\ UNCHANGED <<created, locs>>
     \/ /\ CallFiles \notin fails
        /\ onnx_files' = GetDirectoryFiles(dir, TRUE)
        /\ pc' = "subdirs"
        /\ UNCHANGED <<onnx_subdirs, models, local_onnx, i, it, local_backend,
                       backend, status, alive, created, locs>>
  /\ UNCHANGED <<dir, fails, factoryVars>>

\* GetDirectorySubdirs(path, &onnx_subdirs)
EnumerateSubdirs ==
  /\ pc = "subdirs"
  /\ trace' = Append(trace, CallSubdirs)
  /\ \/ /\ CallSubdirs \in fails
        /\ Return(ReturnedStatus(CallSubdirs), backend)
        /\ UNCHANGED <<created, locs>>
     \/ /\ CallSubdirs \notin fails
        /\ onnx_subdirs' = GetDirectorySubdirs(dir)
        /\ pc' = "alloc"
        /\ UNCHANGED <<onnx_files, models, local_onnx, i, it, local_backend,
                       backend, status, alive, created, locs>>
  /\ UNCHANGED <<dir, fails, factoryVars>>

\* std::make_shared<TemporaryDirectory>(""), n times: n stores that did not
\* exist before.
FreshStores(al, n) ==
  {s \in 1..(n + Cardinality(al)) :
     s \notin al /\ Cardinality({t \in 1..s : t \notin al}) <= n}

\* local_onnx(onnx_files.size()), each element a new TemporaryDirectory
AllocateStores ==
  /\ pc = "alloc"
  /\ LET n == StoreCount(onnx_files, onnx_subdirs)
         fresh == FreshStores(alive, n)
     IN /\ local_onnx' =
             [k \in 1..n |->
                CHOOSE s \in fresh : Cardinality({t \in fresh : t < s}) = k - 1]
        /\ alive' = alive \cup fresh
        /\ created' = fresh
  /\ i' = 0
  /\ pc' = AfterLocalize(0, onnx_subdirs, onnx_files)
  /\ UNCHANGED <<dir, fails, onnx_files, onnx_subdirs, models, it, local_backend,
                 backend, status, locs, trace, factoryVars>>

\* One iteration of the subdirectory loop with local_onnx[i] = slot.
LocalizeInto(dirname, slot) ==
  /\ trace' = Append(trace, CallLocalize(dirname))
  /\ \/ /\ CallLocalize(dirname) \in fails
        /\ Return(ReturnedStatus(CallLocalize(dirname)), backend)
        /\ UNCHANGED <<created, locs>>
     \/ /\ CallLocalize(dirname) \notin fails
        /\ locs' = Append(locs, <<dirname, slot>>)
        /\ models' = Emplace(models, dirname, <<FALSE, ModelPath(slot)>>)
        /\ i' = i + 1
        /\ pc' = AfterLocalize(i + 1, onnx_subdirs, onnx_files)
        /\ UNCHANGED <<onnx_files, onnx_subdirs, local_onnx, it, local_backend,
                       backend, status, alive, created>>
  /\ UNCHANGED <<dir, fails, factoryVars>>

\* The loop body with i < local_onnx.size().
Localize ==
  /\ pc = "localize"
  /\ i < Len(local_onnx)
  /\ LocalizeInto(Nth(onnx_subdirs, i), local_onnx[i + 1])

\* The loop body with i >= local_onnx.size(): operator[] past the end of the
\* vector is undefined. The process is killed by the access, or the access
\* yields whatever lies past the end and the loop body runs on it.
LocalizeOutOfRange ==
  /\ pc = "localize"
  /\ i >= Len(local_onnx)
  /\ \/ /\ pc' = "crashed"
        /\ UNCHANGED <<dir, fails, onnx_files, onnx_subdirs, models, local_onnx,
                       i, it, local_backend, backend, status, alive, created,
                       locs, trace, factoryVars>>
     \/ LocalizeInto(Nth(onnx_subdirs, i), WildSlot)

\* One iteration of the file loop.
ReadFile ==
  /\ pc = "read"
  /\ LET filename == Nth(onnx_files, it)
     IN /\ trace' = Append(trace, CallRead(filename))
        /\ \/ /\ CallRead(filename) \in fails
              /\ Return(ReturnedStatus(CallRead(filename)), backend)
              /\ UNCHANGED <<created, locs>>
           \/ /\ CallRead(filename) \notin fails
              /\ models' = Emplace(models, filename, <<TRUE, ContentsOf(filename)>>)
              /\ it' = it + 1
              /\ pc' = AfterRead(it + 1, onnx_files)
              /\ UNCHANGED <<onnx_files, onnx_subdirs, local_onnx, i,
                             local_backend, backend, status, alive, created, locs>>
  /\ UNCHANGED <<dir, fails, factoryVars>>

\* new OnnxBackend(min_compute_capability); local_backend->Init(...)
BackendInitIgnoringError ==
  /\ pc = "init"
  /\ trace' = Append(trace, CallInit)
  /\ local_backend' = [NoBackend EXCEPT !.exists = TRUE, !.inited = CallInit \notin fails]
  /\ pc' = "cec"
  /\ UNCHANGED <<onnx_files, onnx_subdirs, models, local_onnx, i, it, backend,
                 status, alive, created, locs>>
  /\ UNCHANGED <<dir, fails, factoryVars>>

BackendInit ==
  /\ pc = "init"
  /\ trace' = Append(trace, CallInit)
  /\ \/ /\ CallInit \in fails
        /\ Return(ReturnedStatus(CallInit), backend)
        /\ UNCHANGED <<created, locs>>
     \/ /\ CallInit \notin fails
        /\ local_backend' = [NoBackend EXCEPT !.exists = TRUE, !.inited = TRUE]
        /\ pc' = "cec"
        /\ UNCHANGED <<onnx_files, onnx_subdirs, models, local_onnx, i, it,
                       backend, status, alive, created, locs>>
  /\ UNCHANGED <<dir, fails, factoryVars>>

\* local_backend->CreateExecutionContexts(models)
CreateExecutionContexts ==
  /\ pc = "cec"
  /\ trace' = Append(trace, CallContexts)
  /\ \/ /\ CallContexts \in fails
        /\ Return(ReturnedStatus(CallContexts), backend)
        /\ UNCHANGED <<created, locs>>
     \/ /\ CallContexts \notin fails
        /\ local_backend' = [local_backend EXCEPT !.handed = TRUE, !.contexts = models]
        /\ pc' = "ret"
        /\ UNCHANGED <<onnx_files, onnx_subdirs, models, local_onnx, i, it,
                       backend, status, alive, created, locs>>
  /\ UNCHANGED <<dir, fails, factoryVars>>

\* *backend = std::move(local_backend); return Status::Success;
ReturnSuccess ==
  /\ pc = "ret"
  /\ Return(Success, local_backend)
  /\ UNCHANGED <<dir, fails, created, locs, trace, factoryVars>>

\* ----------------------------------------------------------------- factory

\* OnnxLoader::Stop(): the runtime is deactivated (nothing to do when it is
\* not active).
LoaderStop(a) == FALSE

\* OnnxLoader::Init() that succeeded: the runtime is active.
LoaderInit(a) == TRUE

\* The Create call that makes factory f.
Fresh(f) ==
  /\ fstate[f] = "none"
  /\ \A g \in Factories : g < f => fstate[g] # "none"

\* Create, OnnxLoader::Init() succeeding: the factory is handed to the caller.
\* std::static_pointer_cast<Config> does not look at the dynamic type of
\* backend_config: a configuration of another shape is stored as it comes.
CreateFactory(f, cfg) ==
  /\ pc \in {"idle", "returned"}
  /\ Fresh(f)
  /\ fconfig' = [fconfig EXCEPT ![f] = cfg]
  /\ inits' = [inits EXCEPT ![f] = @ + 1]
  /\ active' = LoaderInit(active)
  /\ fstate' = [fstate EXCEPT ![f] = "live"]
  /\ fout' = [fout EXCEPT ![f] = TRUE]
  /\ fstatus' = [fstatus EXCEPT ![f] = Success]
  /\ UNCHANGED <<stops, callVars>>

\* Create, OnnxLoader::Init() failing: RETURN_IF_ERROR leaves Create, and
\* 'local' is destroyed on the way out, which runs ~OnnxBackendFactory.
CreateFactoryInitFailsNoStop(f, cfg) ==
  /\ pc \in {"idle", "returned"}
  /\ Fresh(f)
  /\ fconfig' = [fconfig EXCEPT ![f] = cfg]
  /\ inits' = [inits EXCEPT ![f] = @ + 1]
  /\ fstate' = [fstate EXCEPT ![f] = "destroyed"]
  /\ fstatus' = [fstatus EXCEPT ![f] = ErrorOf(Call("OnnxLoader::Init", <<>>))]
  /\ UNCHANGED <<fout, stops, active, callVars>>

CreateFactoryInitFails(f, cfg) ==
  /\ pc \in {"idle", "returned"}
  /\ Fresh(f)
  /\ fconfig' = [fconfig EXCEPT ![f] = cfg]
  /\ inits' = [inits EXCEPT ![f] = @ + 1]
  /\ stops' = [stops EXCEPT ![f] = @ + 1]
  /\ active' = LoaderStop(active)
  /\ fstate' = [fstate EXCEPT ![f] = "destroyed"]
  /\ fstatus' = [fstatus EXCEPT ![f] = ErrorOf(Call("OnnxLoader::Init", <<>>))]
  /\ UNCHANGED <<fout, callVars>>

Create ==
  \E f \in Factories, cfg \in ConfigShapes :
    \/ CreateFactory(f, cfg)
    \/ CreateFactoryInitFails(f, cfg)

\* ~OnnxBackendFactory of a factory the caller holds.
DestroyFactory(f) ==
  /\ pc \in {"idle", "returned"}
  /\ fstate[f] = "live"
  /\ fstate' = [fstate EXCEPT ![f] = "destroyed"]
  /\ stops' = [stops EXCEPT ![f] = @ + 1]
  /\ active' = LoaderStop(active)
  /\ UNCHANGED <<fconfig, fstatus, fout, inits, callVars>>

Destroy == \E f \in Factories : DestroyFactory(f)

\* ---------------------------------------------------------- specifications

Steps ==
  \/ EnumerateFiles
  \/ EnumerateSubdirs
  \/ AllocateStores
  \/ Localize
  \/ LocalizeOutOfRange
  \/ ReadFile
  \/ BackendInit
  \/ CreateExecutionContexts
  \/ ReturnSuccess

\* CreateBackend calls on a factory that Create returned.
Next == CreateBackendEnter \/ Steps \/ CallerTakesResult

Spec == Init /\ [][Next]_vars

\* Factories created and destroyed, and CreateBackend calls on those alive.
NextFactory ==
  Create \/ Destroy \/ CreateBackendEnterFew \/ Steps \/ CallerTakesResult

SpecFactory == InitFactory /\ [][NextFactory]_vars


\* ------------------------------------------------------------------ claims

Last(s) == s[Len(s)]

IsPrefix(s, t) == Len(s) <= Len(t) /\ \A k \in 1..Len(s) : s[k] = t[k]

\* The names of S in ascending lexicographic order.
RECURSIVE Ascending(_)
Ascending(S) ==
  IF S = {} THEN <<>>
  ELSE LET least == CHOOSE x \in S : \A y \in S : x = y \/ LexLess(x, y)
       IN <<least>> \o Ascending(S \ {least})

SeqMap(s, Op(_)) == [k \in 1..Len(s) |-> Op(s[k])]

\* The order of collaborator calls the specification prescribes for d.
PrescribedOrder(d) ==
  <<CallFiles, CallSubdirs>>
    \o SeqMap(Ascending({n \in DOMAIN d : d[n] = "dir"}), CallLocalize)
    \o SeqMap(Ascending({n \in DOMAIN d : d[n] = "file" /\ ~IsHidden(n)}), CallRead)
    \o <<CallInit, CallContexts>>

ScannedFiles == {n \in DOMAIN dir : dir[n] = "file" /\ ~IsHidden(n)}

ScannedSubdirs == {n \in DOMAIN dir : dir[n] = "dir"}

\* C1: every subdirectory localized by the call went into a store the call
\* allocated, and no two subdirectories went into the same store.
C1_OwnAllocatedStore ==
  \A k \in 1..Len(locs) :
    /\ locs[k][2] \in created
    /\ \A j \in 1..Len(locs) : j # k => locs[j][2] # locs[k][2]

\* C2: when no collaborator call fails, CreateBackend completes with Success
\* and the map handed to CreateExecutionContexts has exactly the scanned file
\* and subdirectory names as keys, files Inline with their contents, each
\* subdirectory Localized with the path of its own allocated store.
C2_MapIsExactlyTheScan ==
  /\ (fails = {} /\ pc # "idle") => pc # "crashed"
  /\ (fails = {} /\ pc = "returned") =>
       /\ status = Success
       /\ backend.handed
       /\ DOMAIN backend.contexts = ScannedFiles \cup ScannedSubdirs
       /\ \A n \in ScannedFiles : backend.contexts[n] = <<TRUE, ContentsOf(n)>>
       /\ \A n \in ScannedSubdirs :
            \E s \in created :
              /\ backend.contexts[n] = <<FALSE, ModelPath(s)>>
              /\ \A m \in ScannedSubdirs :
                   m # n => backend.contexts[m] # <<FALSE, ModelPath(s)>>

\* C3: a failing collaborator call is the last call made; CreateBackend
\* returns its error unchanged and the caller's backend stays unset. No
\* backend is ever returned together with an error.
C3_FirstErrorShortCircuits ==
  /\ \A k \in 1..(Len(trace) - 1) : trace[k] \notin fails
  /\ (trace # <<>> /\ Last(trace) \in fails) =>
       /\ pc = "returned"
       /\ status = ErrorOf(Last(trace))
       /\ backend = NoBackend
  /\ (pc = "returned" /\ status # Success) =>
       /\ trace # <<>>
       /\ Last(trace) \in fails
       /\ status = ErrorOf(Last(trace))
       /\ ~backend.exists
  /\ backend.exists => (pc = "returned" /\ status = Success)

C3_Witness ==
  /\ pc = "returned"
  /\ status # Success
  /\ Last(trace).op = "ReadTextFile"
  /\ Len(trace) >= 5
  /\ ~backend.exists

\* C4: while the call is in flight (up to and including the return of
\* CreateExecutionContexts) every store it created exists; once the call has
\* returned, with Success or with an error, none of them exists.
C4_StoresLiveUntilReturn ==
  /\ InFlight => created \subseteq alive
  /\ pc = "returned" => created \cap alive = {}

C4_Witness ==
  /\ pc = "returned"
  /\ status # Success
  /\ Last(trace).op = "ReadTextFile"
  /\ Len(locs) >= 1
  /\ Cardinality(created) >= 2
  /\ alive = {}

\* C5: a backend is constructed only while the runtime is active.
C5_ConstructionWhileActive == local_backend.exists => active

\* C6: Create given a configuration of another shape fails with
\* ConfigTypeError, returns no factory and does not call OnnxLoader::Init().
C6_MismatchedConfigRejected ==
  \A f \in Factories :
    fconfig[f] = "other" =>
      /\ fstatus[f] = ErrorOf(Call("ConfigTypeError", <<>>))
      /\ ~fout[f]
      /\ inits[f] = 0

\* C7: no hidden name is a key of the artifact map.
C7_NoHiddenKeys ==
  /\ \A n \in DOMAIN models : ~IsHidden(n)
  /\ \A n \in DOMAIN backend.contexts : ~IsHidden(n)

\* C8: a successful call allocated as many stores as it localized
\* subdirectories.
C8_StoresOnNeed ==
  (pc = "returned" /\ status = Success) => Cardinality(created) = Len(locs)

\* C9: the collaborator calls are made in the prescribed order (enumerate
\* files, enumerate subdirectories, localize the subdirectories in ascending
\* name order, read the files in ascending name order, Init,
\* CreateExecutionContexts), and the Status returned is the error of the
\* earliest call of that order that fails, or Success when none does.
C9_FixedOrder ==
  LET order == PrescribedOrder(dir)
      failing == {k \in 1..Len(order) : order[k] \in fails}
  IN /\ pc # "idle" => IsPrefix(trace, order)
     /\ pc = "returned" =>
          IF failing = {} THEN status = Success /\ trace = order
          ELSE \E k \in failing :
                 /\ \A j \in failing : k <= j
                 /\ status = ErrorOf(order[k])
                 /\ Len(trace) = k

C9_Witness ==
  /\ pc = "returned"
  /\ status.error.op = "LocalizeFileFolder"
  /\ Len(locs) >= 1
  /\ Len(trace) = 4
  /\ Cardinality(created) >= 2
  /\ \E c \in fails : c.op = "ReadTextFile"
  /\ CallInit \in fails

\* C10: the Create call of each factory called OnnxLoader::Init() exactly
\* once; a factory whose Init() succeeded was handed to the caller and
\* Stop() runs exactly once, at its destruction; a Create whose Init() failed
\* returned that error, left the caller's factory unset and ran Stop() exactly
\* once before returning.
C10_InitOnceStopOnce ==
  \A f \in Factories :
    /\ fstate[f] = "none" =>
         inits[f] = 0 /\ stops[f] = 0 /\ ~fout[f] /\ fstatus[f] = NoStatus
    /\ fstate[f] # "none" => inits[f] = 1
    /\ fstate[f] = "live" => fstatus[f] = Success /\ fout[f] /\ stops[f] = 0
    /\ fstate[f] = "destroyed" =>
         /\ stops[f] = 1
         /\ \/ fstatus[f] = Success /\ fout[f]
            \/ fstatus[f] = ErrorOf(Call("OnnxLoader::Init", <<>>)) /\ ~fout[f]

C10_Witness ==
  /\ fstate[1] = "destroyed"
  /\ fstatus[1] = ErrorOf(Call("OnnxLoader::Init", <<>>))
  /\ stops[1] = 1
  /\ ~fout[1]
  /\ fstate[2] = "destroyed"
  /\ fstatus[2] = Success

====
